---------------------------- MODULE Spec2Model ----------------------------
(***************************************************************************)
(* Model of package fib (TerrenceHo/fib): six implementations of the nth   *)
(* Fibonacci number.                                                       *)
(*                                                                         *)
(* Go's int is a 64-bit two's-complement word whose + and * wrap silently. *)
(* A word is modelled by its bit pattern, written as NumLimbs digits in    *)
(* base LimbBase, least significant digit first (256^8 = 2^64), because    *)
(* the model checker's own integers are narrower than the program's.       *)
(* Wrapping signed arithmetic is arithmetic modulo 2^64 on bit patterns.   *)
(* Arguments n, loop counters and array indices stay ordinary integers.    *)
(***************************************************************************)
EXTENDS Integers, Sequences, FiniteSets, TLC

\* ------------------------------------------------------------------ bounds
\* Largest argument given to FibRecursive (exponential run time).
MaxRecursiveN == 14
\* Largest argument given to the cache, tail-recursive and iterative variants.
MaxLinearN == 95
\* Largest argument given to the two matrix variants.
MaxMatrixN == 200

\* ------------------------------------------------- the native integer type
LimbBase == 256
NumLimbs == 8

RECURSIVE ToLimbs(_, _)
\* The len-digit bit pattern of a small non-negative integer k.
ToLimbs(k, len) ==
    IF len = 0 THEN <<>>
    ELSE <<k % LimbBase>> \o ToLimbs(k \div LimbBase, len - 1)

\* An int literal or an int-typed small value as a native word.
ToWord(k) == ToLimbs(k, NumLimbs)

Zero == ToWord(0)
One == ToWord(1)

RECURSIVE AddCarry(_, _, _, _)
AddCarry(a, b, j, c) ==
    IF j > Len(a) THEN <<>>
    ELSE LET s == a[j] + b[j] + c
         IN <<s % LimbBase>> \o AddCarry(a, b, j + 1, s \div LimbBase)

\* a + b of the source: the sum, cut to the width of the operands.
Add(a, b) == AddCarry(a, b, 1, 0)

RECURSIVE ColSum(_, _, _, _)
\* Sum of the digit products a[j]*b[k+1-j], ..., a[k]*b[1].
ColSum(a, b, k, j) ==
    IF j > k THEN 0
    ELSE a[j] * b[k + 1 - j] + ColSum(a, b, k, j + 1)

RECURSIVE MulCarry(_, _, _, _)
MulCarry(a, b, k, c) ==
    IF k > Len(a) THEN <<>>
    ELSE LET s == ColSum(a, b, k, 1) + c
         IN <<s % LimbBase>> \o MulCarry(a, b, k + 1, s \div LimbBase)

\* a * b of the source: the product, cut to the width of the operands.
Mul(a, b) == MulCarry(a, b, 1, 0)

RECURSIVE FromLimbs(_, _)
FromLimbs(w, j) ==
    IF j > Len(w) THEN 0 ELSE w[j] + LimbBase * FromLimbs(w, j + 1)

\* A non-negative word back as an integer (for words below 2^31 only, the
\* range of the model checker's integers).
ToInt(w) == FromLimbs(w, 1)


\* --------------------------------------------------- the functions' results
\* What a call yields when the run-time aborts it (index out of range).
Panic == <<"panic: index out of range">>

RECURSIVE FibRecursive(_)
FibRecursive(n) ==
    IF n < 2 THEN ToWord(n)
    ELSE Add(FibRecursive(n - 1), FibRecursive(n - 2))

\* make([]int, n+1, n+1): indices 0..n, every element zero.
MakeCache(n) == [k \in 0 .. n |-> Zero]

\* (*cache)[k] = v on the heap st = [cache, panic]; an index outside the slice
\* aborts the call.
Store(st, k, v) ==
    IF st.panic THEN st
    ELSE IF k \in DOMAIN st.cache THEN [st EXCEPT !.cache[k] = v]
    ELSE [st EXCEPT !.panic = TRUE]

\* The sum written one place too low: (*cache)[n-1] = (*cache)[n-1] + (*cache)[n-2].
StoreSumBelow(st, n) ==
    IF st.panic THEN st
    ELSE IF {n, n - 1, n - 2} \subseteq DOMAIN st.cache
         THEN [st EXCEPT !.cache[n - 1] = Add(st.cache[n - 1], st.cache[n - 2])]
    ELSE [st EXCEPT !.panic = TRUE]

\* (*cache)[n] = (*cache)[n-1] + (*cache)[n-2] on the heap st.
StoreSum(st, n) ==
    IF st.panic THEN st
    ELSE IF {n, n - 1, n - 2} \subseteq DOMAIN st.cache
         THEN [st EXCEPT !.cache[n] = Add(st.cache[n - 1], st.cache[n - 2])]
    ELSE [st EXCEPT !.panic = TRUE]

RECURSIVE fibRecursiveCache(_, _)
fibRecursiveCache(n, st) ==
    IF n < 2 THEN Store(Store(st, 0, Zero), 1, One)
    ELSE StoreSum(fibRecursiveCache(n - 1, st), n)

FibRecursiveCache(n) ==
    LET st == fibRecursiveCache(n, [cache |-> MakeCache(n), panic |-> FALSE])
    IN IF st.panic THEN Panic ELSE st.cache[n]

RECURSIVE fibTailRecursive(_, _, _)
fibTailRecursive(n, a, b) ==
    IF n = 0 THEN a
    ELSE fibTailRecursive(n - 1, b, Add(a, b))

FibTailRecursive(n) == fibTailRecursive(n, Zero, One)

\* One pass of FibIterative's loop body on the locals l = [temp, first, second, i].
IterativeBodyNoShift(l) ==
    [temp |-> l.second, first |-> l.first,
     second |-> Add(l.first, l.second), i |-> l.i + 1]

IterativeBody(l) ==
    [temp |-> l.second, first |-> l.second,
     second |-> Add(l.first, l.second), i |-> l.i + 1]

RECURSIVE IterativeLoop(_, _)
IterativeLoop(l, n) ==
    IF l.i < n - 1 THEN IterativeLoop(IterativeBody(l), n) ELSE l

FibIterative(n) ==
    IterativeLoop([temp |-> Zero, first |-> Zero, second |-> One, i |-> 0], n).second

\* [2][2]int{{1, 1}, {1, 0}}; row r, column c of the source is [r+1][c+1] here.
BaseMatrix == <<<<One, One>>, <<One, Zero>>>>

\* fibMultiply written without its two copies f := *F and m := *M: every entry
\* is read through the pointers after the earlier entries were stored.
fibMultiplyNoCopy(mem, pF, pM) ==
    LET m1 == [mem EXCEPT ![pF][1][1] =
                  Add(Mul(mem[pF][1][1], mem[pM][1][1]), Mul(mem[pF][1][2], mem[pM][2][1]))]
        m2 == [m1 EXCEPT ![pF][1][2] =
                  Add(Mul(m1[pF][1][1], m1[pM][1][2]), Mul(m1[pF][1][2], m1[pM][2][2]))]
        m3 == [m2 EXCEPT ![pF][2][1] =
                  Add(Mul(m2[pF][2][1], m2[pM][1][1]), Mul(m2[pF][2][2], m2[pM][2][1]))]
    IN [m3 EXCEPT ![pF][2][2] =
           Add(Mul(m3[pF][2][1], m3[pM][1][2]), Mul(m3[pF][2][2], m3[pM][2][2]))]

\* fibMultiply(F, M) on the matrices mem holds, F and M being the names of the
\* matrices the two pointers point to (the same name when they alias).
fibMultiply(mem, pF, pM) ==
    LET f == mem[pF]
        m == mem[pM]
        x == Add(Mul(f[1][1], m[1][1]), Mul(f[1][2], m[2][1]))
        y == Add(Mul(f[1][1], m[1][2]), Mul(f[1][2], m[2][2]))
        z == Add(Mul(f[2][1], m[1][1]), Mul(f[2][2], m[2][1]))
        w == Add(Mul(f[2][1], m[1][2]), Mul(f[2][2], m[2][2]))
    IN [mem EXCEPT ![pF] = <<<<x, y>>, <<z, w>>>>]

\* The matrices of one call: the caller's F and the helper's local M.
NewMem == [F |-> BaseMatrix, M |-> BaseMatrix]

RECURSIVE fibPowerLoop(_, _, _)
\* for i <= n { fibMultiply(F, &M); i++ }
fibPowerLoop(mem, i, n) ==
    IF i <= n THEN fibPowerLoop(fibMultiply(mem, "F", "M"), i + 1, n) ELSE mem

fibPower(mem, n) == fibPowerLoop(mem, 2, n)

FibPowerMatrix(n) ==
    IF n = 0 THEN Zero ELSE fibPower(NewMem, n - 1).F[1][1]

RECURSIVE fibPowerRecursive(_, _)
fibPowerRecursive(mem, n) ==
    IF n = 0 \/ n = 1 THEN mem
    ELSE LET sq == fibMultiply(fibPowerRecursive(mem, n \div 2), "F", "F")
         IN IF n % 2 # 0 THEN fibMultiply(sq, "F", "M") ELSE sq

FibPowerMatrixRecursive(n) ==
    IF n = 0 THEN Zero ELSE fibPowerRecursive(NewMem, n - 1).F[1][1]

\* ------------------------------------------------------ one call, step by step
\* fn(n) is the call under way.  stack holds the activation records of the
\* recursive helper, the innermost last; rv is the value the last return
\* handed to its caller; ret is the value of the whole call.  calls counts the
\* activations of the recursive function, mults the calls of fibMultiply, and
\* log lists the reads and writes of the cache in the order they happen.
VARIABLES fn, n, pc, stack, rv, cache, temp, first, second, i, mem, ret,
          calls, mults, log

vars == <<fn, n, pc, stack, rv, cache, temp, first, second, i, mem, ret,
          calls, mults, log>>

Fns == {"FibRecursive", "FibRecursiveCache", "FibTailRecursive",
        "FibIterative", "FibPowerMatrix", "FibPowerMatrixRecursive"}

\* The largest argument each function is called with.
MaxArg(f) ==
    CASE f = "FibRecursive" -> MaxRecursiveN
      [] f = "FibPowerMatrixRecursive" -> MaxMatrixN
      [] OTHER -> MaxLinearN

\* An activation record: its argument m, where it stands, and two int slots
\* (first and second of fibTailRecursive; the left operand of FibRecursive).
Frame(at, m, a, b) == [pc |-> at, n |-> m, a |-> a, b |-> b]

Top == stack[Len(stack)]
Pop == SubSeq(stack, 1, Len(stack) - 1)
\* The stack with its top record replaced by t and the record f pushed.
Descend(t, f) == Append(Append(Pop, t), f)

Running(f) == fn = f /\ pc = "run"
At(f, at) == Running(f) /\ stack # <<>> /\ Top.pc = at

Init ==
    /\ fn \in Fns
    /\ n \in 0 .. MaxArg(fn)
    /\ pc = "call"
    /\ stack = <<>>
    /\ rv = Zero
    /\ cache = <<>>
    /\ temp = Zero /\ first = Zero /\ second = Zero /\ i = 0
    /\ mem = NewMem
    /\ ret = Zero
    /\ calls = 0 /\ mults = 0 /\ log = <<>>

\* ---- FibRecursive
CallFibRecursive ==
    /\ fn = "FibRecursive" /\ pc = "call"
    /\ pc' = "run"
    /\ stack' = <<Frame("entry", n, Zero, Zero)>>
    /\ calls' = 1
    /\ UNCHANGED <<fn, n, rv, cache, temp, first, second, i, mem, ret, mults, log>>

\* if n < 2 { return n }; otherwise call FibRecursive(n-1).
FibRecursiveEntry ==
    /\ At("FibRecursive", "entry")
    /\ IF Top.n < 2
       THEN /\ rv' = ToWord(Top.n)
            /\ stack' = Pop
            /\ calls' = calls
       ELSE /\ stack' = Descend([Top EXCEPT !.pc = "left"],
                                Frame("entry", Top.n - 1, Zero, Zero))
            /\ calls' = calls + 1
            /\ rv' = rv
    /\ UNCHANGED <<fn, n, pc, cache, temp, first, second, i, mem, ret, mults, log>>

\* FibRecursive(n-1) has returned: keep its value, call FibRecursive(n-2).
FibRecursiveLeft ==
    /\ At("FibRecursive", "left")
    /\ stack' = Descend([Top EXCEPT !.pc = "right", !.a = rv],
                        Frame("entry", Top.n - 2, Zero, Zero))
    /\ calls' = calls + 1
    /\ UNCHANGED <<fn, n, pc, rv, cache, temp, first, second, i, mem, ret, mults, log>>

\* FibRecursive(n-2) has returned: return the sum.
FibRecursiveRight ==
    /\ At("FibRecursive", "right")
    /\ rv' = Add(Top.a, rv)
    /\ stack' = Pop
    /\ UNCHANGED <<fn, n, pc, cache, temp, first, second, i, mem, ret, calls, mults, log>>

ReturnFibRecursive ==
    /\ Running("FibRecursive") /\ stack = <<>>
    /\ ret' = rv
    /\ pc' = "done"
    /\ UNCHANGED <<fn, n, stack, rv, cache, temp, first, second, i, mem, calls, mults, log>>

\* ---- FibRecursiveCache
CallFibRecursiveCache ==
    /\ fn = "FibRecursiveCache" /\ pc = "call"
    /\ cache' = MakeCache(n)
    /\ pc' = "run"
    /\ stack' = <<Frame("entry", n, Zero, Zero)>>
    /\ calls' = 1
    /\ UNCHANGED <<fn, n, rv, temp, first, second, i, mem, ret, mults, log>>

Heap == [cache |-> cache, panic |-> FALSE]
Read(k) == [op |-> "read", k |-> k]
Write(k) == [op |-> "write", k |-> k]

\* if n < 2 { (*cache)[0] = 0; ... }; otherwise call fibRecursiveCache(n-1).
FibRecursiveCacheEntry ==
    /\ At("FibRecursiveCache", "entry")
    /\ IF Top.n < 2
       THEN LET st == Store(Heap, 0, Zero)
            IN IF st.panic
               THEN pc' = "panic" /\ UNCHANGED <<stack, cache, log, calls>>
               ELSE /\ cache' = st.cache
                    /\ log' = Append(log, Write(0))
                    /\ stack' = Append(Pop, [Top EXCEPT !.pc = "base1"])
                    /\ UNCHANGED <<pc, calls>>
       ELSE /\ stack' = Descend([Top EXCEPT !.pc = "after"],
                                Frame("entry", Top.n - 1, Zero, Zero))
            /\ calls' = calls + 1
            /\ UNCHANGED <<pc, cache, log>>
    /\ UNCHANGED <<fn, n, rv, temp, first, second, i, mem, ret, mults>>

\* (*cache)[1] = 1; return.
FibRecursiveCacheBase ==
    /\ At("FibRecursiveCache", "base1")
    /\ LET st == Store(Heap, 1, One)
       IN IF st.panic
          THEN pc' = "panic" /\ UNCHANGED <<stack, cache, log>>
          ELSE /\ cache' = st.cache
               /\ log' = Append(log, Write(1))
               /\ stack' = Pop
               /\ pc' = pc
    /\ UNCHANGED <<fn, n, rv, temp, first, second, i, mem, ret, calls, mults>>

\* fibRecursiveCache(n-1) has returned: (*cache)[n] = (*cache)[n-1] + (*cache)[n-2].
\* The two reads precede the write; the log lists them in the order written.
FibRecursiveCacheAfter ==
    /\ At("FibRecursiveCache", "after")
    /\ LET st == StoreSum(Heap, Top.n)
       IN IF st.panic
          THEN pc' = "panic" /\ UNCHANGED <<stack, cache, log>>
          ELSE /\ cache' = st.cache
               /\ log' = log \o <<Read(Top.n - 1), Read(Top.n - 2), Write(Top.n)>>
               /\ stack' = Pop
               /\ pc' = pc
    /\ UNCHANGED <<fn, n, rv, temp, first, second, i, mem, ret, calls, mults>>

\* return cache[n]
ReturnFibRecursiveCache ==
    /\ Running("FibRecursiveCache") /\ stack = <<>>
    /\ IF n \in DOMAIN cache
       THEN ret' = cache[n] /\ pc' = "done"
       ELSE ret' = ret /\ pc' = "panic"
    /\ UNCHANGED <<fn, n, stack, rv, cache, temp, first, second, i, mem, calls, mults, log>>

\* ---- FibTailRecursive
CallFibTailRecursive ==
    /\ fn = "FibTailRecursive" /\ pc = "call"
    /\ pc' = "run"
    /\ stack' = <<Frame("entry", n, Zero, One)>>
    /\ calls' = 1
    /\ UNCHANGED <<fn, n, rv, cache, temp, first, second, i, mem, ret, mults, log>>

\* fibTailRecursive whose base case returns second instead of first.
FibTailRecursiveEntryReturnsSecond ==
    /\ At("FibTailRecursive", "entry")
    /\ IF Top.n = 0
       THEN /\ rv' = Top.b
            /\ stack' = Pop
            /\ calls' = calls
       ELSE /\ stack' = Descend([Top EXCEPT !.pc = "return"],
                                Frame("entry", Top.n - 1, Top.b, Add(Top.a, Top.b)))
            /\ calls' = calls + 1
            /\ rv' = rv
    /\ UNCHANGED <<fn, n, pc, cache, temp, first, second, i, mem, ret, mults, log>>

\* if n == 0 { return first }; otherwise call
\* fibTailRecursive(n-1, second, first+second).
FibTailRecursiveEntry ==
    /\ At("FibTailRecursive", "entry")
    /\ IF Top.n = 0
       THEN /\ rv' = Top.a
            /\ stack' = Pop
            /\ calls' = calls
       ELSE /\ stack' = Descend([Top EXCEPT !.pc = "return"],
                                Frame("entry", Top.n - 1, Top.b, Add(Top.a, Top.b)))
            /\ calls' = calls + 1
            /\ rv' = rv
    /\ UNCHANGED <<fn, n, pc, cache, temp, first, second, i, mem, ret, mults, log>>

\* The inner call has returned: return its value.
FibTailRecursiveReturn ==
    /\ At("FibTailRecursive", "return")
    /\ stack' = Pop
    /\ UNCHANGED <<fn, n, pc, rv, cache, temp, first, second, i, mem, ret, calls, mults, log>>

ReturnFibTailRecursive ==
    /\ Running("FibTailRecursive") /\ stack = <<>>
    /\ ret' = rv
    /\ pc' = "done"
    /\ UNCHANGED <<fn, n, stack, rv, cache, temp, first, second, i, mem, calls, mults, log>>

\* ---- FibIterative
\* var temp int; first := 0; second := 1; i := 0
CallFibIterative ==
    /\ fn = "FibIterative" /\ pc = "call"
    /\ temp' = Zero /\ first' = Zero /\ second' = One /\ i' = 0
    /\ pc' = "loop"
    /\ UNCHANGED <<fn, n, stack, rv, cache, mem, ret, calls, mults, log>>

\* i < n-1: the loop body, then i++.
FibIterativeLoop ==
    /\ fn = "FibIterative" /\ pc = "loop"
    /\ i < n - 1
    /\ LET l == IterativeBody([temp |-> temp, first |-> first, second |-> second, i |-> i])
       IN temp' = l.temp /\ first' = l.first /\ second' = l.second /\ i' = l.i
    /\ UNCHANGED <<fn, n, pc, stack, rv, cache, mem, ret, calls, mults, log>>

\* The loop is over: return second.
ReturnFibIterative ==
    /\ fn = "FibIterative" /\ pc = "loop"
    /\ ~(i < n - 1)
    /\ ret' = second
    /\ pc' = "done"
    /\ UNCHANGED <<fn, n, stack, rv, cache, temp, first, second, i, mem, calls, mults, log>>

\* ---- FibPowerMatrix
\* F := base; if n == 0 { return 0 }; fibPower(&F, n-1) begins: M := base; i := 2.
CallFibPowerMatrix ==
    /\ fn = "FibPowerMatrix" /\ pc = "call"
    /\ mem' = NewMem
    /\ IF n = 0
       THEN ret' = Zero /\ pc' = "done" /\ i' = i
       ELSE ret' = ret /\ pc' = "loop" /\ i' = 2
    /\ UNCHANGED <<fn, n, stack, rv, cache, temp, first, second, calls, mults, log>>

\* fibPower's loop, whose bound is FibPowerMatrix's n-1: fibMultiply(F, &M); i++.
FibPowerLoop ==
    /\ fn = "FibPowerMatrix" /\ pc = "loop"
    /\ i <= n - 1
    /\ mem' = fibMultiply(mem, "F", "M")
    /\ mults' = mults + 1
    /\ i' = i + 1
    /\ UNCHANGED <<fn, n, pc, stack, rv, cache, temp, first, second, ret, calls, log>>

\* fibPower returns: return F[0][0].
ReturnFibPowerMatrix ==
    /\ fn = "FibPowerMatrix" /\ pc = "loop"
    /\ ~(i <= n - 1)
    /\ ret' = mem.F[1][1]
    /\ pc' = "done"
    /\ UNCHANGED <<fn, n, stack, rv, cache, temp, first, second, i, mem, calls, mults, log>>

\* ---- FibPowerMatrixRecursive
\* F := base; if n == 0 { return 0 }; call fibPowerRecursive(&F, n-1).
CallFibPowerMatrixRecursive ==
    /\ fn = "FibPowerMatrixRecursive" /\ pc = "call"
    /\ mem' = NewMem
    /\ IF n = 0
       THEN ret' = Zero /\ pc' = "done" /\ stack' = stack /\ calls' = calls
       ELSE /\ ret' = ret /\ pc' = "run"
            /\ stack' = <<Frame("entry", n - 1, Zero, Zero)>>
            /\ calls' = 1
    /\ UNCHANGED <<fn, n, rv, cache, temp, first, second, i, mults, log>>

\* fibPowerRecursive descending by n-1 instead of n/2.
FibPowerRecursiveEntryLinear ==
    /\ At("FibPowerMatrixRecursive", "entry")
    /\ IF Top.n = 0 \/ Top.n = 1
       THEN stack' = Pop /\ calls' = calls
       ELSE /\ stack' = Descend([Top EXCEPT !.pc = "square"],
                                Frame("entry", Top.n - 1, Zero, Zero))
            /\ calls' = calls + 1
    /\ UNCHANGED <<fn, n, pc, rv, cache, temp, first, second, i, mem, ret, mults, log>>

\* if n == 0 || n == 1 { return }; M := base; call fibPowerRecursive(F, n/2).
FibPowerRecursiveEntry ==
    /\ At("FibPowerMatrixRecursive", "entry")
    /\ IF Top.n = 0 \/ Top.n = 1
       THEN stack' = Pop /\ calls' = calls
       ELSE /\ stack' = Descend([Top EXCEPT !.pc = "square"],
                                Frame("entry", Top.n \div 2, Zero, Zero))
            /\ calls' = calls + 1
    /\ UNCHANGED <<fn, n, pc, rv, cache, temp, first, second, i, mem, ret, mults, log>>

\* fibPowerRecursive without its multiplication by M for an odd n.
FibPowerRecursiveSquareOnly ==
    /\ At("FibPowerMatrixRecursive", "square")
    /\ mem' = fibMultiply(mem, "F", "F")
    /\ mults' = mults + 1
    /\ stack' = Pop
    /\ UNCHANGED <<fn, n, pc, rv, cache, temp, first, second, i, ret, calls, log>>

\* The inner call has returned: fibMultiply(F, F); then test n%2 != 0.
FibPowerRecursiveSquare ==
    /\ At("FibPowerMatrixRecursive", "square")
    /\ mem' = fibMultiply(mem, "F", "F")
    /\ mults' = mults + 1
    /\ stack' = IF Top.n % 2 # 0 THEN Append(Pop, [Top EXCEPT !.pc = "odd"]) ELSE Pop
    /\ UNCHANGED <<fn, n, pc, rv, cache, temp, first, second, i, ret, calls, log>>

\* n is odd: fibMultiply(F, &M); return.
FibPowerRecursiveOdd ==
    /\ At("FibPowerMatrixRecursive", "odd")
    /\ mem' = fibMultiply(mem, "F", "M")
    /\ mults' = mults + 1
    /\ stack' = Pop
    /\ UNCHANGED <<fn, n, pc, rv, cache, temp, first, second, i, ret, calls, log>>

\* fibPowerRecursive returns: return F[0][0].
ReturnFibPowerMatrixRecursive ==
    /\ Running("FibPowerMatrixRecursive") /\ stack = <<>>
    /\ ret' = mem.F[1][1]
    /\ pc' = "done"
    /\ UNCHANGED <<fn, n, stack, rv, cache, temp, first, second, i, mem, calls, mults, log>>

Next ==
    \/ CallFibRecursive \/ FibRecursiveEntry \/ FibRecursiveLeft
    \/ FibRecursiveRight \/ ReturnFibRecursive
    \/ CallFibRecursiveCache \/ FibRecursiveCacheEntry \/ FibRecursiveCacheBase
    \/ FibRecursiveCacheAfter \/ ReturnFibRecursiveCache
    \/ CallFibTailRecursive \/ FibTailRecursiveEntry \/ FibTailRecursiveReturn
    \/ ReturnFibTailRecursive
    \/ CallFibIterative \/ FibIterativeLoop \/ ReturnFibIterative
    \/ CallFibPowerMatrix \/ FibPowerLoop \/ ReturnFibPowerMatrix
    \/ CallFibPowerMatrixRecursive \/ FibPowerRecursiveEntry
    \/ FibPowerRecursiveSquare \/ FibPowerRecursiveOdd
    \/ ReturnFibPowerMatrixRecursive

Spec == Init /\ [][Next]_vars

\* A call under way is never suspended: the calling thread runs it to its end.
FairSpec == Spec /\ WF_vars(Next)

\* ------------------------------------------------- the mathematical reference
\* F(k) with F(0) = 0, F(1) = 1, F(k) = F(k-1) + F(k-2), computed exactly on
\* RefLimbs digits, wide enough that no sum below is cut.
RefMax == MaxRecursiveN + MaxLinearN + MaxMatrixN + 2
RefLimbs == NumLimbs + RefMax \div 8

RECURSIVE ExtendFib(_, _)
\* <<F(0), ..., F(j)>> extended by the next k terms, each the sum of the two
\* before it.  The recursion halves k to stay shallow; the test on Len(seq)
\* only makes the evaluator compute seq before it descends.
ExtendFib(seq, k) ==
    IF k = 0 \/ Len(seq) = 0 THEN seq
    ELSE IF k = 1 THEN Append(seq, Add(seq[Len(seq)], seq[Len(seq) - 1]))
    ELSE ExtendFib(ExtendFib(seq, k \div 2), k - k \div 2)

\* <<F(0), F(1), ..., F(k)>> for k >= 1
FibSeq(k) == ExtendFib(<<ToLimbs(0, RefLimbs), ToLimbs(1, RefLimbs)>>, k - 1)

FibTable == FibSeq(RefMax)

\* The exact F(k).
MathFib(k) == FibTable[k + 1]

\* F(k) as the native integer holds it: exact when it fits, wrapped otherwise.
WordFib(k) == SubSeq(MathFib(k), 1, NumLimbs)

\* F(k) fits the native signed integer: it is below LimbBase^NumLimbs / 2.
Fits(k) ==
    /\ \A j \in NumLimbs + 1 .. RefLimbs : MathFib(k)[j] = 0
    /\ MathFib(k)[NumLimbs] < LimbBase \div 2

\* The product of two 2x2 matrices of native integers.
MatMul(A, B) ==
    [r \in 1 .. 2 |-> [c \in 1 .. 2 |->
        Add(Mul(A[r][1], B[1][c]), Mul(A[r][2], B[2][c]))]]

Identity == <<<<One, Zero>>, <<Zero, One>>>>

RECURSIVE ExtendPow(_, _)
\* <<M^1, ..., M^j>> extended by the next k powers of the base matrix M.
ExtendPow(seq, k) ==
    IF k = 0 \/ Len(seq) = 0 THEN seq
    ELSE IF k = 1 THEN Append(seq, MatMul(seq[Len(seq)], BaseMatrix))
    ELSE ExtendPow(ExtendPow(seq, k \div 2), k - k \div 2)

\* <<M^1, ..., M^k>> for k >= 1
MatPowSeq(k) == ExtendPow(<<BaseMatrix>>, k - 1)

MatPowTable == MatPowSeq(MaxMatrixN + 1)

\* M^m for m >= 1.
MatPow(m) == MatPowTable[m]

RECURSIVE Log2(_)
\* floor(log2(m)) for m >= 1
Log2(m) == IF m <= 1 THEN 0 ELSE 1 + Log2(m \div 2)

RECURSIVE IsPowerOfTwo(_)
IsPowerOfTwo(m) == m = 1 \/ (m > 1 /\ m % 2 = 0 /\ IsPowerOfTwo(m \div 2))

Ended == pc \in {"done", "panic"}

\* What the call under way came to: its value, or Panic.
Outcome == IF pc = "panic" THEN Panic ELSE ret

\* What g(m) comes to, by the functions' definitions.
Result(g, m) ==
    CASE g = "FibRecursive" -> FibRecursive(m)
      [] g = "FibRecursiveCache" -> FibRecursiveCache(m)
      [] g = "FibTailRecursive" -> FibTailRecursive(m)
      [] g = "FibIterative" -> FibIterative(m)
      [] g = "FibPowerMatrix" -> FibPowerMatrix(m)
      [] g = "FibPowerMatrixRecursive" -> FibPowerMatrixRecursive(m)

\* The step-by-step run of a call ends as the function's definition says.
RunMatchesResult == Ended => Outcome = Result(fn, n)

\* ------------------------------------------------------------------- claims

\* C1: for every n of the shared safe range (0..40 when FibRecursive takes
\* part, 0..90 otherwise) the six functions return the same value, the one
\* permitted exception being FibIterative at n = 0.
C1_AllVariantsAgree ==
    (Ended /\ n <= 90) =>
        \A g \in Fns :
            (/\ n <= MaxArg(g)
             /\ (g = "FibRecursive" \/ fn = "FibRecursive" => n <= 40)
             /\ ~(n = 0 /\ "FibIterative" \in {fn, g}))
            => Outcome = Result(g, n)

\* C2: each function, called with n >= 0 whose F(n) fits the native signed
\* integer, returns exactly F(n); in particular 0 for n = 0 and 1 for n = 1.
C2_ReturnsFib ==
    (Ended /\ Fits(n)) => (pc = "done" /\ ret = WordFib(n))

\* C3: for every n >= 0 no function reaches an error state; every cache
\* access of FibRecursiveCache uses an index inside 0..n, the base-case
\* writes to cache[0] and cache[1] at n = 0 included.
C3_NoErrorState ==
    /\ pc # "panic"
    /\ At("FibRecursiveCache", "base1") => 1 \in DOMAIN cache

\* C6: for every n >= 0 each of the six functions eventually returns.
C6_EventuallyReturns == <>(pc = "done")

\* C4: FibPowerMatrix(n) and FibPowerMatrixRecursive(n) return the same
\* value for every n from 0 to at least 200, the values of n whose F(n)
\* exceeds the native signed integer included: there both return the same
\* wrapped value.
C4_MatrixVariantsAgree ==
    /\ (pc = "done" /\ fn = "FibPowerMatrixRecursive") => ret = FibPowerMatrix(n)
    /\ (pc = "done" /\ fn = "FibPowerMatrix") => ret = FibPowerMatrixRecursive(n)

\* FibPowerMatrixRecursive(200) has returned, F(200) does not fit the native
\* integer, and the value returned is the wrapped F(200).
C4_Witness ==
    /\ pc = "done" /\ fn = "FibPowerMatrixRecursive" /\ n = 200
    /\ ~Fits(n)
    /\ ret = WordFib(n)

\* C5: one call of FibPowerMatrixRecursive(n), n >= 1, calls fibMultiply at
\* most 2*floor(log2(n)) times; for n = 2^k the count is about k, between k-1
\* and 2k; FibPowerMatrix(n) calls it n-2 times for n >= 3.
C5_MultiplyCounts ==
    pc = "done" =>
        /\ (fn = "FibPowerMatrixRecursive" /\ n >= 1) => mults <= 2 * Log2(n)
        /\ (fn = "FibPowerMatrixRecursive" /\ n >= 1 /\ IsPowerOfTwo(n)) =>
               (Log2(n) - 1 <= mults /\ mults <= 2 * Log2(n))
        /\ (fn = "FibPowerMatrix" /\ n >= 3) => mults = n - 2

\* FibPowerMatrixRecursive(128) has returned after 12 calls of fibMultiply.
C5_Witness ==
    /\ pc = "done" /\ fn = "FibPowerMatrixRecursive"
    /\ n = 128 /\ Log2(n) = 7 /\ mults = 12

\* C7: FibIterative starts with (first, second) = (0, 1), holds
\* (first, second) = (F(i), F(i+1)) after i passes of its loop body, makes
\* exactly max(n-1, 0) passes and returns second: F(n) for every n >= 1, and
\* 1 instead of 0 for n = 0, where the body never runs.
C7_IterativeInvariant ==
    (fn = "FibIterative" /\ pc \in {"loop", "done"}) =>
        /\ first = WordFib(i) /\ second = WordFib(i + 1)
        /\ i <= (IF n >= 1 THEN n - 1 ELSE 0)
        /\ pc = "done" =>
              /\ i = (IF n >= 1 THEN n - 1 ELSE 0)
              /\ ret = second
              /\ n >= 1 => ret = WordFib(n)
              /\ n = 0 => (ret = One /\ ret # WordFib(0))

\* FibIterative(10) has returned 55 after 9 passes of the loop body.
C7_Witness ==
    /\ fn = "FibIterative" /\ pc = "done"
    /\ n = 10 /\ i = 9 /\ ToInt(ret) = 55

\* The p-th access of the cache when it is filled in the order the claim
\* gives: write 0, write 1, then for k = 2, 3, ... read k-1, read k-2, write k.
ExpectedAccess(p) ==
    IF p <= 2 THEN Write(p - 1)
    ELSE LET k == 2 + (p - 3) \div 3
         IN CASE (p - 3) % 3 = 0 -> Read(k - 1)
              [] (p - 3) % 3 = 1 -> Read(k - 2)
              [] OTHER -> Write(k)

\* The indices written so far, in the order of the writes.
Written == SelectSeq(log, LAMBDA e : e.op = "write")

\* C8: in FibRecursiveCache(n), n >= 1, no cache entry is written before the
\* recursion has descended to its base case; then the indices 0, 1, ..., n
\* are written in increasing order, each once; a write at k >= 2 reads only
\* the entries k-1 and k-2, written before it; and when the helper returns
\* cache[k] = F(k) for every k in 0..n.
C8_CacheFillOrder ==
    (fn = "FibRecursiveCache" /\ n >= 1 /\ pc \in {"run", "done"}) =>
        /\ \A p \in 1 .. Len(log) : log[p] = ExpectedAccess(p)
        /\ \A p \in 1 .. Len(Written) :
              /\ Written[p].k = p - 1
              /\ cache[p - 1] = WordFib(p - 1)
        /\ (Len(log) >= 3 /\ log[Len(log)].op = "write") =>
              LET k == log[Len(log)].k
              IN /\ log[Len(log) - 2] = Read(k - 1)
                 /\ log[Len(log) - 1] = Read(k - 2)
                 /\ \E p \in 1 .. Len(Written) - 1 : Written[p].k = k - 1
                 /\ \E p \in 1 .. Len(Written) - 1 : Written[p].k = k - 2
        \* nothing is written before all n activations, down to n = 1, exist
        /\ log # <<>> => calls = n
        /\ (stack # <<>> /\ Top.pc = "entry") =>
              (log = <<>> /\ calls = Len(stack) /\ Top.n = n + 1 - calls)
        /\ (stack = <<>> \/ pc = "done") =>
              /\ Len(Written) = n + 1
              /\ \A k \in 0 .. n : cache[k] = WordFib(k)
        /\ pc = "done" => ret = WordFib(n)

\* FibRecursiveCache(10) has returned 55 after writing the indices 0..10.
C8_Witness ==
    /\ fn = "FibRecursiveCache" /\ pc = "done" /\ n = 10
    /\ Len(Written) = 11 /\ Len(log) = 29
    /\ ret = ToWord(55)

\* C9: in FibTailRecursive(n) every activation of fibTailRecursive with
\* remaining count r has (first, second) = (F(n-r), F(n-r+1)), from (0, 1) at
\* r = n; there are exactly n+1 activations, and the value returned at r = 0,
\* first = F(n), is handed back unchanged through every enclosing activation.
C9_TailRecursiveInvariant ==
    fn = "FibTailRecursive" =>
        /\ pc = "run" =>
              /\ \A j \in 1 .. Len(stack) :
                    /\ stack[j].n = n - (j - 1)
                    /\ stack[j].a = WordFib(j - 1)
                    /\ stack[j].b = WordFib(j)
              /\ (stack # <<>> /\ Top.pc = "entry") => calls = Len(stack)
              /\ (stack = <<>> \/ Top.pc = "return") =>
                    (calls = n + 1 /\ rv = WordFib(n))
        /\ pc = "done" => (calls = n + 1 /\ ret = WordFib(n))

\* The innermost of the 11 activations of FibTailRecursive(10), r = 0, has
\* returned first = 55 and the outer activations are handing it back.
C9_Witness ==
    /\ fn = "FibTailRecursive" /\ pc = "run" /\ n = 10
    /\ Len(stack) = 5 /\ Top.pc = "return"
    /\ calls = 11 /\ rv = ToWord(55)

\* C10: with F the base matrix M at the start, fibPowerRecursive(F, m) leaves
\* F = M^m for m >= 1 and leaves F = M (not the identity) for m = 0 and
\* m = 1; its step fibMultiply(F, F) leaves the square of F's value before
\* the step; and the multiplication by M happens exactly when m is odd.
C10_PowerRecursive ==
    Running("FibPowerMatrixRecursive") =>
        /\ mem.M = BaseMatrix
        /\ (stack # <<>> /\ Top.pc = "entry") => mem.F = BaseMatrix
        \* the call for Top.n \div 2 >= 1 has returned
        /\ (stack # <<>> /\ Top.pc = "square") => mem.F = MatPow(Top.n \div 2)
        \* the square is taken, and Top.n is odd
        /\ (stack # <<>> /\ Top.pc = "odd") =>
              /\ Top.n % 2 = 1
              /\ mem.F = MatMul(MatPow(Top.n \div 2), MatPow(Top.n \div 2))
              /\ mem.F = MatPow(Top.n - 1)
        \* the outermost call, for m = n - 1, has returned
        /\ stack = <<>> =>
              IF n - 1 <= 1 THEN mem.F = BaseMatrix /\ mem.F # Identity
              ELSE mem.F = MatPow(n - 1)

\* fibPowerRecursive(F, 11) has returned with F = M^11, after its squaring
\* step and, 11 being odd, its multiplication by M.
C10_Witness ==
    /\ Running("FibPowerMatrixRecursive") /\ stack = <<>>
    /\ n = 12 /\ mults = 5
    /\ mem.F = MatPow(11)

=============================================================================
